---------------------------- MODULE Spec2Model ----------------------------
(***************************************************************************)
(* Model of MT5Calculator (src/src/mt5/mt5_client.py): the balance replay  *)
(* calculate_balance_at_date, the profit aggregation calculate_by_magics   *)
(* and the position timeline get_positions_timeline, over a deal history   *)
(* as MetaTrader 5 returns it; of MT5DataProvider.get_history, of the      *)
(* magic descriptions of DatabaseManager (src/src/database/db_manager.py)  *)
(* and of PerformanceUtils (src/src/utils/helpers.py).                     *)
(*                                                                         *)
(* Time is counted in whole hours.  A naive datetime is an integer (hours  *)
(* of local wall clock), a POSIX timestamp is an integer (hours since the  *)
(* epoch); the two differ by the UTC offset of the machine's time zone.    *)
(* Money, volume and price are integers (cents, lots/100, points).         *)
(* An optional value (None or v) is the sequence <<>> or <<v>>; a deal     *)
(* object without the attribute `deal` has deal = None.                    *)
(***************************************************************************)
EXTENDS Integers, Sequences, FiniteSets, TLC

VARIABLES
    utc_offset,     \* UTC offset of the machine's local time zone (hours)
    deals,          \* the deal history handed to the calculator
    pc,             \* "idle", "replay" (inside get_positions_timeline), "done"
    call,           \* the arguments of the running / last call
    result,         \* the value the last call returned
    balance_log,    \* the calculate_balance_at_date calls made, with results
    all_relevant_deals, \* get_positions_timeline: sorted relevant deals
    idx,            \* get_positions_timeline: index of the replay loop
    current_positions,  \* get_positions_timeline: open positions (dict order)
    timeline,       \* get_positions_timeline: the Periods built so far
    current_balance,    \* get_positions_timeline: running balance
    last_change,    \* get_positions_timeline: balance_change of the last step
    database,       \* DatabaseManager: db_path, the database file, the calls made
    connection      \* MT5Connection: is_initialized, the terminal library's state

vars == <<utc_offset, deals, pc, call, result, balance_log, all_relevant_deals,
          idx, current_positions, timeline, current_balance, last_change,
          database, connection>>

service_vars == <<database, connection>>

timeline_vars == <<all_relevant_deals, idx, current_positions, timeline,
                   current_balance, last_change>>

-----------------------------------------------------------------------------
(* Bounds and input domains                                                *)

MaxBalanceDeals == 3
MaxAggregateDeals == 2
MaxTimelineDeals == 3
MaxDbCalls == 4
MaxHistoryCalls == 2

None == <<>>
Some(v) == <<v>>
IsNone(o) == o = <<>>
Val(o) == o[1]

LOCAL_TIMESHIFT == 3

UtcOffsets == {0, 2}

BUY == 0
SELL == 1
BALANCE == 2
ENTRY_IN == 0
ENTRY_OUT == 1

SeqsUpTo(S, n) == UNION {[1..k -> S] : k \in 0..n}

RECURSIVE SumOver(_, _)
SumOver(S, f) ==
    IF S = {} THEN 0
    ELSE LET x == CHOOSE y \in S : TRUE
         IN  f[x] + SumOver(S \ {x}, f)

-----------------------------------------------------------------------------
(* datetime conversions                                                    *)

\* datetime.timestamp() of a naive datetime: read as local time.
Timestamp(dt) == dt - utc_offset

\* datetime.fromtimestamp(ts): the local wall clock at that instant.
FromTimestamp(ts) == ts + utc_offset

\* target_date.replace(hour=0, minute=0, second=0)
StartOfDay(dt) == dt - (dt % 24)

\* target_date.replace(hour=23, minute=59, second=59), in whole hours
EndOfDay(dt) == dt - (dt % 24) + 23

-----------------------------------------------------------------------------
(* Stable sort, as Python's sorted() / list.sort() with a key              *)

\* sorted() compares keys; a key here is a pair, compared as Python tuples are
KeyLess(k1, k2) == k1[1] < k2[1] \/ (k1[1] = k2[1] /\ k1[2] < k2[2])

RECURSIVE InsertSorted(_, _)
InsertSorted(s, e) ==
    IF s = <<>> THEN <<e>>
    ELSE IF KeyLess(e.key, s[Len(s)].key) THEN
             Append(InsertSorted(SubSeq(s, 1, Len(s) - 1), e), s[Len(s)])
         ELSE Append(s, e)

\* keyed: a sequence of [key, item]; equal keys keep their input order
RECURSIVE StableSort(_)
StableSort(keyed) ==
    IF keyed = <<>> THEN <<>>
    ELSE InsertSorted(StableSort(SubSeq(keyed, 1, Len(keyed) - 1)),
                      keyed[Len(keyed)])

Items(keyed) == [i \in 1..Len(keyed) |-> keyed[i].item]

-----------------------------------------------------------------------------
(* calculate_balance_at_date                                               *)

\* line 158: sorted(deals, key=lambda x: x.time)
SortByTime(ds) ==
    Items(StableSort([i \in 1..Len(ds) |-> [key |-> <<ds[i].time, 0>>, item |-> ds[i]]]))

\* lines 144-155: the target instant as a timestamp
TargetTimestamp(target_date, end_of_day, use_exact_time) ==
    LET target_date_time ==
            IF use_exact_time THEN target_date
            ELSE IF end_of_day THEN EndOfDay(target_date)
            ELSE StartOfDay(target_date)
    IN  Timestamp(target_date_time + LOCAL_TIMESHIFT)

DealContributionTypo(deal) ==
    deal.profit + deal.commission + deal.swap

\* lines 169-173: what one deal adds to the balance
DealContribution(deal) ==
    IF deal.type = 2 THEN deal.profit
    ELSE deal.profit + deal.commission + deal.swap

RECURSIVE BalanceLoopStrict(_, _, _, _)
BalanceLoopStrict(sorted_deals, i, balance, target_timestamp) ==
    IF i > Len(sorted_deals) THEN balance
    ELSE IF sorted_deals[i].time >= target_timestamp THEN balance
    ELSE BalanceLoopStrict(sorted_deals, i + 1,
                           balance + DealContribution(sorted_deals[i]),
                           target_timestamp)

\* lines 163-173: the loop over the sorted deals, left at the first later deal
RECURSIVE BalanceLoop(_, _, _, _)
BalanceLoop(sorted_deals, i, balance, target_timestamp) ==
    IF i > Len(sorted_deals) THEN balance
    ELSE IF sorted_deals[i].time > target_timestamp THEN balance
    ELSE BalanceLoop(sorted_deals, i + 1,
                     balance + DealContribution(sorted_deals[i]),
                     target_timestamp)

\* lines 116-175
calculate_balance_at_date(target_date, ds, initial_balance, end_of_day, use_exact_time) ==
    IF ds = <<>> THEN (IF IsNone(initial_balance) THEN 0 ELSE Val(initial_balance))
    ELSE LET init == IF IsNone(initial_balance) THEN 0 ELSE Val(initial_balance)
             target_timestamp ==
                 TargetTimestamp(target_date, end_of_day, use_exact_time)
             sorted_deals == SortByTime(ds)
         IN  BalanceLoop(sorted_deals, 1, init, target_timestamp)

-----------------------------------------------------------------------------
(* Balance replay: the deal histories and the calls explored               *)

BalanceDealTimes == {10, 26, 33}
BalanceTargets == {20, 30}
InitialBalances == {None, Some(1000)}

BalanceDeals ==
    [position_id : {0}, deal : {None}, time : BalanceDealTimes, type : {BUY, BALANCE},
     entry : {ENTRY_IN}, symbol : {"EURUSD"}, magic : {0}, volume : {1},
     price : {100}, profit : {10, -4}, commission : {-2}, swap : {-1}]

\* No DatabaseManager and no MT5DataProvider constructed.
IdleServices ==
    /\ database = [db_path |-> "none"]
    /\ connection = [is_initialized |-> FALSE]

IdleTimeline ==
    /\ all_relevant_deals = <<>>
    /\ idx = 0
    /\ current_positions = <<>>
    /\ timeline = <<>>
    /\ current_balance = 0
    /\ last_change = 0

InitBalance ==
    /\ utc_offset \in UtcOffsets
    /\ deals \in SeqsUpTo(BalanceDeals, MaxBalanceDeals)
    /\ pc = "idle"
    /\ call = [op |-> "none"]
    /\ result = None
    /\ balance_log = <<>>
    /\ IdleTimeline
    /\ IdleServices

\* A caller evaluates the balance at a date; a second evaluation of the same
\* history uses the same initial balance and boundary mode.
BalanceAt ==
    /\ pc = "idle"
    /\ Len(balance_log) < 2
    /\ \E target_date \in BalanceTargets, initial_balance \in InitialBalances, end_of_day \in BOOLEAN, use_exact_time \in BOOLEAN :
          /\ balance_log # <<>> =>
                /\ balance_log[1].initial_balance = initial_balance
                /\ balance_log[1].end_of_day = end_of_day
                /\ balance_log[1].use_exact_time = use_exact_time
          /\ balance_log' = Append(balance_log,
                [target_date |-> target_date,
                 initial_balance |-> initial_balance,
                 end_of_day |-> end_of_day,
                 use_exact_time |-> use_exact_time,
                 balance |-> calculate_balance_at_date(target_date, deals,
                                initial_balance, end_of_day, use_exact_time)])
    /\ UNCHANGED <<utc_offset, deals, pc, call, result>>
    /\ UNCHANGED timeline_vars
    /\ UNCHANGED service_vars

NextBalance == BalanceAt

SpecBalance == InitBalance /\ [][NextBalance]_vars

-----------------------------------------------------------------------------
(* Claims about calculate_balance_at_date                                  *)

\* What the specification says one deal contributes to the balance.
ExpectedContribution(d) ==
    IF d.type = BALANCE THEN d.profit ELSE d.profit + d.commission + d.swap

ContributionsOf(S) ==
    SumOver(S, [i \in DOMAIN deals |-> ExpectedContribution(deals[i])])

LogTimestamp(e) == TargetTimestamp(e.target_date, e.end_of_day, e.use_exact_time)

\* C3: balance replay is additive.  For two evaluations of the same history in
\* the same boundary mode and with the same initial balance at instants
\* t1 < t2, balance_at(t2) - balance_at(t1) is the sum of the contributions of
\* exactly the deals with target(t1) < time <= target(t2).
C3_BalanceAdditive ==
    \A a \in DOMAIN balance_log, b \in DOMAIN balance_log :
        balance_log[a].target_date < balance_log[b].target_date =>
            balance_log[b].balance - balance_log[a].balance =
                ContributionsOf({i \in DOMAIN deals :
                    /\ deals[i].time > LogTimestamp(balance_log[a])
                    /\ deals[i].time <= LogTimestamp(balance_log[b])})

C3_Witness ==
    /\ Len(balance_log) = 2
    /\ balance_log[1].target_date < balance_log[2].target_date
    /\ \E i, j, k \in DOMAIN deals :
          /\ deals[i].time <= LogTimestamp(balance_log[1])
          /\ deals[j].time > LogTimestamp(balance_log[1])
          /\ deals[j].time <= LogTimestamp(balance_log[2])
          /\ deals[j].type = BALANCE
          /\ deals[k].time > LogTimestamp(balance_log[2])
          /\ i > j

\* C4: calculate_balance_at_date returns initial_balance (0 when None) plus
\* the contribution of every deal with time <= target timestamp, whatever the
\* order of the list: profit for a BalanceChange deal, profit + commission +
\* swap otherwise; later deals add nothing; an empty list gives
\* initial_balance.
C4_BalanceAtDate ==
    \A a \in DOMAIN balance_log :
        LET e == balance_log[a]
            start == IF IsNone(e.initial_balance) THEN 0 ELSE Val(e.initial_balance)
        IN  e.balance = start + ContributionsOf({i \in DOMAIN deals :
                                    deals[i].time <= LogTimestamp(e)})

C4_Witness ==
    /\ balance_log # <<>>
    /\ \E i, j, k \in DOMAIN deals :
          /\ i < j /\ j < k
          /\ deals[i].time > LogTimestamp(balance_log[1])
          /\ deals[j].time = LogTimestamp(balance_log[1])
          /\ deals[k].time = LogTimestamp(balance_log[1])
          /\ deals[k].type = BALANCE
          /\ deals[j].type # BALANCE

C4_EmptyWitness ==
    /\ deals = <<>>
    /\ Len(balance_log) = 2
    /\ balance_log[1].initial_balance = None

-----------------------------------------------------------------------------
(* calculate_by_magics                                                     *)

EmptyDict == [k \in {} |-> 0]

\* d[k] += v, the key created at 0.0 when missing
DictAdd(d, k, v) ==
    IF k \in DOMAIN d THEN [d EXCEPT ![k] = @ + v] ELSE d @@ (k :> v)

RECURSIVE MagicToGroupFirstWins(_, _)
MagicToGroupFirstWins(magic_groups, n) ==
    IF n = 0 THEN EmptyDict
    ELSE LET before == MagicToGroupFirstWins(magic_groups, n - 1)
             g == magic_groups[n]
         IN  [m \in DOMAIN before \cup g.magics |->
                 IF m \in DOMAIN before THEN before[m] ELSE g.id]

\* lines 234-238: magic -> group_id; a later group overwrites an earlier one.
\* magic_groups is the dict in iteration order: a sequence of [id, magics].
RECURSIVE MagicToGroup(_, _)
MagicToGroup(magic_groups, n) ==
    IF n = 0 THEN EmptyDict
    ELSE LET before == MagicToGroup(magic_groups, n - 1)
             g == magic_groups[n]
         IN  [m \in DOMAIN before \cup g.magics |->
                 IF m \in g.magics THEN g.id ELSE before[m]]

\* line 241: the deal's time as the dashboard's local naive datetime
DealLocalTime(deal) == FromTimestamp(deal.time) - LOCAL_TIMESHIFT

SkippedKeepsBalance(deal, from_date, to_date) ==
    \/ ~IsNone(from_date) /\ DealLocalTime(deal) < Val(from_date)
    \/ ~IsNone(to_date) /\ DealLocalTime(deal) > Val(to_date)

\* lines 242-247: the deals the loop passes over
Skipped(deal, from_date, to_date) ==
    \/ deal.type = 2
    \/ ~IsNone(from_date) /\ DealLocalTime(deal) < Val(from_date)
    \/ ~IsNone(to_date) /\ DealLocalTime(deal) > Val(to_date)

ResolveMagicNoBorrow(deal, ds) == deal.magic

\* lines 249-254: a zero magic borrows the magic of the first deal of the
\* list with the same position_id and a non-zero magic
ResolveMagic(deal, ds) ==
    IF deal.magic # 0 THEN deal.magic
    ELSE LET sib == {j \in DOMAIN ds :
                        ds[j].position_id = deal.position_id /\ ds[j].magic # 0}
         IN  IF sib = {} THEN 0
             ELSE ds[CHOOSE j \in sib : \A h \in sib : j <= h].magic

DisplayKeyUngrouped(magic_key, magic_groups, magic_to_group) == magic_key

\* lines 257-259: the group id stands for a grouped magic
DisplayKey(magic_key, magic_groups, magic_to_group) ==
    IF ~IsNone(magic_groups) /\ Val(magic_groups) # <<>>
          /\ magic_key \in DOMAIN magic_to_group
    THEN magic_to_group[magic_key]
    ELSE magic_key

\* line 261
SymbolKey(deal, symbol) == IF IsNone(symbol) THEN deal.symbol ELSE Val(symbol)

AccumulateKeyTwice(acc, i, display_key, symbol_key, deal_profit, magic_key) ==
    [magic_profits |-> DictAdd(acc.magic_profits, <<display_key, symbol_key>>, deal_profit),
     magics_summ |-> acc.magics_summ + deal_profit,
     magic_total_sums |-> DictAdd(DictAdd(acc.magic_total_sums, display_key, deal_profit), magic_key, deal_profit),
     keyed |-> acc.keyed @@ (i :> [magic_key |-> magic_key, display_key |-> display_key, symbol_key |-> symbol_key])]

\* lines 262-273: one deal added to its bucket, to the grand total and to its
\* key's total; keyed records the keys the iteration computed for deal i
Accumulate(acc, i, display_key, symbol_key, deal_profit, magic_key) ==
    [magic_profits |-> DictAdd(acc.magic_profits, <<display_key, symbol_key>>, deal_profit),
     magics_summ |-> acc.magics_summ + deal_profit,
     magic_total_sums |-> DictAdd(acc.magic_total_sums, display_key, deal_profit),
     keyed |-> acc.keyed @@ (i :> [magic_key |-> magic_key, display_key |-> display_key, symbol_key |-> symbol_key])]

\* lines 240-273: the loop over the deals, in list order
RECURSIVE AggregateLoop(_, _, _, _, _, _, _)
AggregateLoop(ds, i, acc, symbol, from_date, to_date, magic_groups) ==
    IF i > Len(ds) THEN acc
    ELSE IF Skipped(ds[i], from_date, to_date) THEN
        AggregateLoop(ds, i + 1, acc, symbol, from_date, to_date, magic_groups)
    ELSE
        LET deal == ds[i]
            magic_to_group ==
                IF IsNone(magic_groups) THEN EmptyDict
                ELSE MagicToGroup(Val(magic_groups), Len(Val(magic_groups)))
            magic_key == ResolveMagic(deal, ds)
            display_key == DisplayKey(magic_key, magic_groups, magic_to_group)
            symbol_key == SymbolKey(deal, symbol)
            deal_profit == deal.profit + deal.commission + deal.swap
        IN  AggregateLoop(ds, i + 1,
                Accumulate(acc, i, display_key, symbol_key, deal_profit, magic_key),
                symbol, from_date, to_date, magic_groups)

SummOnlyMagicsKeepsZero(magics_summ, magic_total_sums) ==
    IF 0 \in DOMAIN magic_total_sums THEN Some(magics_summ) ELSE None

\* lines 276-277: the "Summ only magics" entry, set only when the per-key
\* totals have the key 0
SummOnlyMagicsEntry(magics_summ, magic_total_sums) ==
    IF 0 \in DOMAIN magic_total_sums
    THEN Some(magics_summ - magic_total_sums[0])
    ELSE None

\* lines 224-280; the returned dict as a record: its (key, symbol) entries,
\* "Summ", "Summ only magics" (None when absent) and "Total by Magic"
calculate_by_magics(ds, symbol, from_date, to_date, magic_groups) ==
    LET acc == AggregateLoop(ds, 1,
                   [magic_profits |-> EmptyDict, magics_summ |-> 0,
                    magic_total_sums |-> EmptyDict, keyed |-> EmptyDict],
                   symbol, from_date, to_date, magic_groups)
    IN  [buckets |-> acc.magic_profits,
         Summ |-> acc.magics_summ,
         SummOnlyMagics |->
             SummOnlyMagicsEntry(acc.magics_summ, acc.magic_total_sums),
         TotalByMagic |-> acc.magic_total_sums,
         keyed |-> acc.keyed]

-----------------------------------------------------------------------------
(* Profit aggregation: the deal histories and the calls explored           *)

AggregateDealTimes == {8, 10}
AggregateMagics == {0, 7, 8}
AggregatePositions == {1, 2}
SymbolOf(position_id) == IF position_id = 2 THEN "GBPUSD" ELSE "EURUSD"
ProfitOf(position_id) == IF position_id = 2 THEN -4 ELSE 10

AggregateDeals ==
    {d \in [position_id : AggregatePositions, deal : {None}, time : AggregateDealTimes,
            type : {BUY, BALANCE}, entry : {ENTRY_OUT}, symbol : {"EURUSD", "GBPUSD"},
            magic : AggregateMagics, volume : {1}, price : {100},
            profit : {10, -4}, commission : {-2}, swap : {-1}] :
        /\ d.symbol = SymbolOf(d.position_id)
        /\ d.profit = ProfitOf(d.position_id)}

WindowBounds == {None, Some(7), Some(9)}
SymbolFilters == {None, Some("EURUSD")}

\* None; one group; two groups sharing magic 7; a group whose id is the
\* ungrouped magic 8; a group holding the unassigned magic 0
Groupings ==
    {None,
     Some(<<[id |-> 10, magics |-> {7}]>>),
     Some(<<[id |-> 10, magics |-> {7}], [id |-> 11, magics |-> {7, 8}]>>),
     Some(<<[id |-> 8, magics |-> {7}]>>),
     Some(<<[id |-> 10, magics |-> {0}]>>)}

InitAggregate ==
    /\ utc_offset \in UtcOffsets
    /\ deals \in SeqsUpTo(AggregateDeals, MaxAggregateDeals)
    /\ pc = "idle"
    /\ call = [op |-> "none"]
    /\ result = None
    /\ balance_log = <<>>
    /\ IdleTimeline
    /\ IdleServices

CalculateByMagics ==
    /\ pc = "idle"
    /\ \E symbol \in SymbolFilters, from_date \in WindowBounds, to_date \in WindowBounds, magic_groups \in Groupings :
          /\ call' = [op |-> "calculate_by_magics", symbol |-> symbol,
                      from_date |-> from_date, to_date |-> to_date,
                      magic_groups |-> magic_groups]
          /\ result' = calculate_by_magics(deals, symbol, from_date, to_date,
                                           magic_groups)
    /\ pc' = "done"
    /\ UNCHANGED <<utc_offset, deals, balance_log>>
    /\ UNCHANGED timeline_vars
    /\ UNCHANGED service_vars

NextAggregate == CalculateByMagics

SpecAggregate == InitAggregate /\ [][NextAggregate]_vars

Aggregated == pc = "done" /\ call.op = "calculate_by_magics"

-----------------------------------------------------------------------------
(* Claims about calculate_by_magics                                        *)

\* The deal's local time: its time adjusted by the fixed offset.
ExpectedLocalTime(d) == d.time + utc_offset - LOCAL_TIMESHIFT

InWindow(d) ==
    /\ IsNone(call.from_date) \/ ExpectedLocalTime(d) >= Val(call.from_date)
    /\ IsNone(call.to_date) \/ ExpectedLocalTime(d) <= Val(call.to_date)

\* The deals that count: trading deals inside the inclusive window.
Contributing == {i \in DOMAIN deals : deals[i].type # BALANCE /\ InWindow(deals[i])}

AmountsOf(S) ==
    SumOver(S, [i \in DOMAIN deals |->
                    deals[i].profit + deals[i].commission + deals[i].swap])

\* The non-zero magics carried by the deals of the position of deal i.
SiblingMagics(i) ==
    {deals[j].magic : j \in {h \in DOMAIN deals :
        deals[h].position_id = deals[i].position_id /\ deals[h].magic # 0}}

GroupsHolding(magic) ==
    IF IsNone(call.magic_groups) THEN {}
    ELSE {g \in {Val(call.magic_groups)[n] : n \in DOMAIN Val(call.magic_groups)} :
              magic \in g.magics}

\* C1: the grand total "Summ" is the sum of profit + commission + swap over
\* exactly the deals that are not BalanceChange and whose local time lies in
\* [window_start, window_end]; no BalanceChange deal is part of the grand
\* total or of any per-key total.
C1_GrandTotalExcludesBalance ==
    Aggregated =>
        /\ result.Summ = AmountsOf(Contributing)
        /\ DOMAIN result.keyed = Contributing
        /\ \A k \in DOMAIN result.TotalByMagic :
              result.TotalByMagic[k] =
                  AmountsOf({i \in Contributing : result.keyed[i].display_key = k})

C1_Witness ==
    /\ Aggregated
    /\ ~IsNone(call.from_date) /\ ~IsNone(call.to_date) /\ ~IsNone(call.magic_groups)
    /\ \E i, j \in DOMAIN deals :
          /\ deals[i].type = BALANCE /\ InWindow(deals[i]) /\ deals[i].profit # 0
          /\ deals[j].type # BALANCE /\ InWindow(deals[j])
          /\ deals[i].position_id = deals[j].position_id
          /\ result.Summ = AmountsOf({j})

C1_WitnessOutside ==
    /\ Aggregated
    /\ \E i, j \in DOMAIN deals :
          /\ deals[i].type # BALANCE /\ ~InWindow(deals[i])
          /\ deals[j].type # BALANCE /\ InWindow(deals[j])
          /\ ExpectedLocalTime(deals[j]) = Val(call.from_date)

C2_WitnessUnassigned ==
    /\ Aggregated
    /\ IsNone(call.magic_groups)
    /\ Len(deals) = 2
    /\ deals[1].magic = 0 /\ 1 \in Contributing
    /\ deals[2].magic = 7 /\ deals[2].position_id # deals[1].position_id
    /\ 2 \in Contributing
    /\ DOMAIN result.TotalByMagic = {0, 7}

\* The magics the resolution of deal i may give.
ExpectedResolved(i) ==
    IF deals[i].magic # 0 THEN {deals[i].magic}
    ELSE IF SiblingMagics(i) = {} THEN {0}
    ELSE SiblingMagics(i)

\* C9: with a grouping, each contributing deal is keyed, after magic
\* resolution, by the id of a group its resolved magic belongs to, and by the
\* resolved magic itself when no group lists it; with no grouping every deal
\* is keyed by its resolved magic.
C9_GroupKeying ==
    Aggregated =>
        \A i \in Contributing :
            /\ i \in DOMAIN result.keyed
            /\ LET magic_key == result.keyed[i].magic_key
                   display_key == result.keyed[i].display_key
                   holding == GroupsHolding(magic_key)
               IN  /\ magic_key \in ExpectedResolved(i)
                   /\ holding = {} => display_key = magic_key
                   /\ holding # {} => display_key \in {g.id : g \in holding}
                   /\ display_key \in DOMAIN result.TotalByMagic

C9_Witness ==
    /\ Aggregated
    /\ call.magic_groups = Some(<<[id |-> 10, magics |-> {7}]>>)
    /\ \E i, j \in Contributing :
          /\ deals[i].magic = 0 /\ deals[j].magic = 7
          /\ SiblingMagics(i) = {7}
          /\ result.keyed[i].magic_key = 7
          /\ result.keyed[i].display_key = 10
          /\ DOMAIN result.TotalByMagic = {10}

C9_WitnessUngrouped ==
    /\ Aggregated
    /\ call.magic_groups = Some(<<[id |-> 10, magics |-> {7}]>>)
    /\ \E i, j \in Contributing :
          /\ deals[i].magic = 7 /\ deals[j].magic = 8
          /\ DOMAIN result.TotalByMagic = {8, 10}

\* C10: the AggregateResult is consistent, overlapping groups included: each
\* contributing deal is added once to one (key, symbol) bucket, once to that
\* key's total and once to the grand total; the buckets of a key sum to the
\* key's "Total by Magic" entry and those entries sum to "Summ".
C10_AggregateConsistent ==
    Aggregated =>
        /\ result.Summ = AmountsOf(DOMAIN result.keyed)
        /\ \A b \in DOMAIN result.buckets :
              result.buckets[b] =
                  AmountsOf({i \in DOMAIN result.keyed :
                      <<result.keyed[i].display_key, result.keyed[i].symbol_key>> = b})
        /\ \A i \in DOMAIN result.keyed :
              <<result.keyed[i].display_key, result.keyed[i].symbol_key>>
                  \in DOMAIN result.buckets
        /\ {b[1] : b \in DOMAIN result.buckets} = DOMAIN result.TotalByMagic
        /\ \A k \in DOMAIN result.TotalByMagic :
              result.TotalByMagic[k] =
                  SumOver({b \in DOMAIN result.buckets : b[1] = k}, result.buckets)
        /\ SumOver(DOMAIN result.TotalByMagic, result.TotalByMagic) = result.Summ

C10_Witness ==
    /\ Aggregated
    /\ call.magic_groups =
          Some(<<[id |-> 10, magics |-> {7}], [id |-> 11, magics |-> {7, 8}]>>)
    /\ IsNone(call.symbol)
    /\ \E i, j \in DOMAIN result.keyed :
          /\ deals[i].magic = 7 /\ deals[j].magic = 8
          /\ deals[i].symbol # deals[j].symbol
          /\ Cardinality(DOMAIN result.buckets) = 2
          /\ DOMAIN result.TotalByMagic = {11}

-----------------------------------------------------------------------------
(* get_positions_timeline                                                  *)

Abs(x) == IF x < 0 THEN -x ELSE x

\* line 314
TradingDeals(ds) == SelectSeq(ds, LAMBDA d : d.type # 2)

\* lines 317-320: position_id -> magic; a later deal overwrites an earlier one
PositionIdToMagic(trading_deals) ==
    LET tagged == {i \in DOMAIN trading_deals :
                      trading_deals[i].position_id # 0 /\ trading_deals[i].magic # 0}
    IN  [pid \in {trading_deals[i].position_id : i \in tagged} |->
            LET mine == {i \in tagged : trading_deals[i].position_id = pid}
            IN  trading_deals[CHOOSE i \in mine : \A j \in mine : j <= i].magic]

\* lines 323-333: the positions carrying one of the wanted magics
RelevantPositionIds(trading_deals, position_id_to_magic, magics) ==
    {trading_deals[i].position_id : i \in {j \in DOMAIN trading_deals :
        LET deal == trading_deals[j]
        IN  \/ deal.magic \in magics
            \/ /\ deal.position_id # 0
               /\ deal.position_id \in DOMAIN position_id_to_magic
               /\ position_id_to_magic[deal.position_id] \in magics}}

\* line 342: key=lambda x: (x.time, x.deal if hasattr(x, 'deal') else 0)
SortByTimeAndDeal(ds) ==
    Items(StableSort([i \in 1..Len(ds) |->
        [key |-> <<ds[i].time, IF IsNone(ds[i].deal) THEN 0 ELSE Val(ds[i].deal)>>,
         item |-> ds[i]]]))

\* lines 336-342
AllRelevantDeals(ds, magics) ==
    LET trading_deals == TradingDeals(ds)
        position_id_to_magic == PositionIdToMagic(trading_deals)
        relevant_position_ids ==
            RelevantPositionIds(trading_deals, position_id_to_magic, magics)
    IN  SortByTimeAndDeal(SelectSeq(trading_deals,
            LAMBDA d : d.position_id \in relevant_position_ids))

\* The dict of open positions, in insertion order, as a sequence of records.
HasPosition(positions, pid) == \E i \in DOMAIN positions : positions[i].position_id = pid
PositionIndex(positions, pid) == CHOOSE i \in DOMAIN positions : positions[i].position_id = pid
DelPositionKept(positions, pid) == positions
DelPosition(positions, pid) == SelectSeq(positions, LAMBDA p : p.position_id # pid)

\* price_open is a float: a deal's price, or total_price_volume /
\* total_volume, kept as the fraction num / den
Price(p) == [num |-> p, den |-> 1]
Ratio(n, d) ==
    LET g == CHOOSE x \in 1..d : /\ n % x = 0 /\ d % x = 0
                                 /\ \A y \in (x + 1)..d : n % y # 0 \/ d % y # 0
    IN  [num |-> n \div g, den |-> d \div g]

\* lines 362-375 and 451-464: the position a first opening deal creates
NewPosition(deal, position_id_to_magic) ==
    [position_id |-> deal.position_id,
     symbol |-> deal.symbol,
     direction |-> IF deal.type = 0 THEN "Buy" ELSE "Sell",
     volume |-> Abs(deal.volume),
     price_open |-> Price(deal.price),
     magic |-> IF deal.magic = 0 /\ deal.position_id \in DOMAIN position_id_to_magic
               THEN position_id_to_magic[deal.position_id]
               ELSE deal.magic,
     total_volume |-> Abs(deal.volume),
     total_price_volume |-> deal.price * Abs(deal.volume)]

\* lines 353-393: one deal before the window applied to positions_at_start;
\* raised is the ZeroDivisionError of line 381
ApplyBeforeWindow(positions, deal, position_id_to_magic) ==
    LET position_id == deal.position_id IN
    IF position_id = 0 THEN [raised |-> FALSE, positions |-> positions]
    ELSE IF deal.entry = 0 THEN
        IF ~HasPosition(positions, position_id) THEN
            [raised |-> FALSE,
             positions |-> Append(positions, NewPosition(deal, position_id_to_magic))]
        ELSE
            LET k == PositionIndex(positions, position_id)
                pos == positions[k]
                total_volume == pos.total_volume + Abs(deal.volume)
                total_price_volume == pos.total_price_volume + deal.price * Abs(deal.volume)
            IN  IF total_volume = 0 THEN [raised |-> TRUE, positions |-> positions]
                ELSE [raised |-> FALSE,
                      positions |-> [positions EXCEPT ![k] =
                          [pos EXCEPT !.total_volume = total_volume,
                                      !.total_price_volume = total_price_volume,
                                      !.price_open = Ratio(total_price_volume, total_volume)]]]
    ELSE IF deal.entry = 1 /\ HasPosition(positions, position_id) THEN
        LET k == PositionIndex(positions, position_id)
            pos == positions[k]
            total_volume == pos.total_volume - Abs(deal.volume)
        IN  IF total_volume <= 0
            THEN [raised |-> FALSE, positions |-> DelPosition(positions, position_id)]
            ELSE [raised |-> FALSE,
                  positions |-> [positions EXCEPT ![k] =
                                    [pos EXCEPT !.total_volume = total_volume]]]
    ELSE [raised |-> FALSE, positions |-> positions]

\* lines 347-393: the replay of the deals before from_timestamp
RECURSIVE PositionsAtStart(_, _, _, _, _)
PositionsAtStart(sorted, i, positions, from_timestamp, position_id_to_magic) ==
    IF i > Len(sorted) THEN [raised |-> FALSE, positions |-> positions]
    ELSE IF sorted[i].time >= from_timestamp THEN [raised |-> FALSE, positions |-> positions]
    ELSE LET r == ApplyBeforeWindow(positions, sorted[i], position_id_to_magic)
         IN  IF r.raised THEN r
             ELSE PositionsAtStart(sorted, i + 1, r.positions, from_timestamp,
                                   position_id_to_magic)

\* lines 398-408: current_positions copied from positions_at_start
CopyAtStart(positions) ==
    [k \in DOMAIN positions |-> [positions[k] EXCEPT !.volume = positions[k].total_volume]]

\* lines 417-423 and 536-542: the positions a Period lists (position_id is
\* kept beside the listed fields to tell the listed positions apart)
Listed(positions) ==
    [k \in DOMAIN positions |->
        [position_id |-> positions[k].position_id,
         symbol |-> positions[k].symbol,
         direction |-> positions[k].direction,
         volume |-> positions[k].total_volume,
         price_open |-> positions[k].price_open,
         magic |-> positions[k].magic]]

NewPeriod(positions, time_in, balance) ==
    [positions |-> Listed(positions), time_in |-> time_in, time_out |-> None,
     balance |-> balance]

SetLastTimeOut(tl, t) ==
    IF tl = <<>> THEN tl ELSE [tl EXCEPT ![Len(tl)].time_out = Some(t)]

AppendPeriodKeepOpen(tl, positions, deal_time_local, balance) ==
    Append(tl, NewPeriod(positions, deal_time_local, balance))

\* lines 528-546: the previous Period closed and a new one opened
AppendPeriod(tl, positions, deal_time_local, balance) ==
    Append(SetLastTimeOut(tl, deal_time_local),
           NewPeriod(positions, deal_time_local, balance))

UpdateLastBalanceKeep(tl, balance) == tl

\* lines 549-550
UpdateLastBalance(tl, balance) ==
    IF tl = <<>> THEN tl ELSE [tl EXCEPT ![Len(tl)].balance = balance]

\* lines 308-311
WindowTimestamp(date) == Timestamp(date - LOCAL_TIMESHIFT)

\* line 444
DealTimeLocal(deal) == FromTimestamp(deal.time) - LOCAL_TIMESHIFT

CloseChangeSingleCommission(deal) == deal.profit + deal.swap + deal.commission

\* line 510
CloseChange(deal) == deal.profit + deal.swap + (deal.commission * 2)

ApplyCloseKeepListed(positions, deal) ==
    LET k == PositionIndex(positions, deal.position_id)
        pos == positions[k]
        total_volume == pos.total_volume - Abs(deal.volume)
    IN  IF Abs(deal.volume) > 0
        THEN [positions |-> [positions EXCEPT ![k] =
                                [pos EXCEPT !.total_volume = total_volume,
                                            !.volume = total_volume]],
              positions_changed |-> TRUE]
        ELSE [positions |-> positions, positions_changed |-> FALSE]

\* lines 485-498: a closing deal on a position of current_positions
ApplyClose(positions, deal) ==
    LET k == PositionIndex(positions, deal.position_id)
        pos == positions[k]
        close_volume == Abs(deal.volume)
        total_volume == pos.total_volume - close_volume
    IN  IF close_volume > 0 THEN
            IF total_volume <= 0
            THEN [positions |-> DelPosition(positions, deal.position_id),
                  positions_changed |-> TRUE]
            ELSE [positions |-> [positions EXCEPT ![k] =
                                    [pos EXCEPT !.total_volume = total_volume,
                                                !.volume = total_volume]],
                  positions_changed |-> TRUE]
        ELSE [positions |-> positions, positions_changed |-> FALSE]

ClosedPositionChangeAsClose(deal) == CloseChange(deal)

\* lines 514-518: a closing deal on a position that is not in
\* current_positions changes the balance by its swap
ClosedPositionChange(deal) == deal.swap

\* lines 443-518: one deal of the window applied to current_positions;
\* raised is the ZeroDivisionError of line 472
ApplyInWindow(positions, deal, position_id_to_magic) ==
    LET position_id == deal.position_id IN
    IF deal.entry = 0 THEN
        IF ~HasPosition(positions, position_id) THEN
            [raised |-> FALSE,
             positions |-> Append(positions, NewPosition(deal, position_id_to_magic)),
             positions_changed |-> TRUE,
             balance_change |-> deal.swap]
        ELSE
            LET k == PositionIndex(positions, position_id)
                pos == positions[k]
                new_volume == Abs(deal.volume)
                total_volume == pos.total_volume + new_volume
                total_price_volume == pos.total_price_volume + deal.price * new_volume
            IN  IF total_volume = 0
                THEN [raised |-> TRUE, positions |-> positions,
                      positions_changed |-> FALSE, balance_change |-> 0]
                ELSE [raised |-> FALSE,
                      positions |-> [positions EXCEPT ![k] =
                          [pos EXCEPT !.total_volume = total_volume,
                                      !.total_price_volume = total_price_volume,
                                      !.price_open = Ratio(total_price_volume, total_volume),
                                      !.volume = total_volume]],
                      positions_changed |-> TRUE,
                      balance_change |-> deal.swap]
    ELSE IF deal.entry = 1 THEN
        IF HasPosition(positions, position_id) THEN
            LET c == ApplyClose(positions, deal)
            IN  [raised |-> FALSE,
                 positions |-> c.positions,
                 positions_changed |-> c.positions_changed,
                 balance_change |-> IF Abs(deal.volume) > 0 THEN CloseChange(deal)
                                    ELSE deal.swap]
        ELSE [raised |-> FALSE, positions |-> positions,
              positions_changed |-> FALSE,
              balance_change |-> ClosedPositionChange(deal)]
    ELSE [raised |-> FALSE, positions |-> positions,
          positions_changed |-> FALSE, balance_change |-> 0]

-----------------------------------------------------------------------------
(* Timeline: the deal histories and the calls explored                     *)

TimelineDealTimes == {5, 8}
PriceAt(time) == IF time = 5 THEN 100 ELSE 110

\* Position 1 (EURUSD, bought) carries magic 0 or 7 and is opened, topped
\* up, closed in part, closed beyond its volume, opened with volume 0 or hit
\* by a swap tick of volume 0; position 2 (GBPUSD, sold) carries magic 8;
\* one opening deal and one close have position_id 0; a BalanceChange deal
\* carries the position_id and the magic of position 1.  Deal objects have no attribute
\* `deal`, but for three deals of position 1 that carry the tickets 1, 2, 3:
\* an opening deal with magic 0, a close with magic 7 and a tick of volume
\* 0 with magic 8 and swap 0.  A last opening deal reuses position_id 1 for
\* a GBPUSD position that is sold, and a late close of position 1 at 16 lies
\* after the instant up to which the starting balance counts deals.
TradeShapes ==
    {[entry |-> ENTRY_IN, volume |-> 1], [entry |-> ENTRY_IN, volume |-> 2],
     [entry |-> ENTRY_IN, volume |-> 0], [entry |-> ENTRY_OUT, volume |-> 1],
     [entry |-> ENTRY_OUT, volume |-> -2], [entry |-> ENTRY_OUT, volume |-> 0]}

Deal(position_id, time, type, shape, symbol, magic, profit) ==
    [position_id |-> position_id, deal |-> None, time |-> time, type |-> type,
     entry |-> shape.entry, symbol |-> symbol, magic |-> magic,
     volume |-> shape.volume, price |-> PriceAt(time), profit |-> profit,
     commission |-> -2, swap |-> -1]

TimelineDeals ==
    {Deal(1, t, IF sh.entry = ENTRY_IN THEN BUY ELSE SELL, sh, "EURUSD", m,
          IF sh.entry = ENTRY_IN THEN 0 ELSE 10) :
        t \in TimelineDealTimes, sh \in TradeShapes, m \in {0, 7}}
    \cup {Deal(2, t, IF sh.entry = ENTRY_IN THEN SELL ELSE BUY, sh, "GBPUSD", 8,
               IF sh.entry = ENTRY_IN THEN 0 ELSE 10) :
        t \in TimelineDealTimes,
        sh \in {[entry |-> ENTRY_IN, volume |-> 1], [entry |-> ENTRY_OUT, volume |-> 1]}}
    \cup {Deal(0, 8, BUY, [entry |-> ENTRY_IN, volume |-> 1], "EURUSD", 7, 0),
          Deal(0, 8, SELL, [entry |-> ENTRY_OUT, volume |-> 1], "EURUSD", 7, 10)}
    \cup {[Deal(1, 8, BUY, [entry |-> ENTRY_IN, volume |-> 1], "EURUSD", 0, 0)
              EXCEPT !.deal = Some(1)],
          [Deal(1, 8, SELL, [entry |-> ENTRY_OUT, volume |-> 1], "EURUSD", 7, 10)
              EXCEPT !.deal = Some(2)],
          [Deal(1, 8, SELL, [entry |-> ENTRY_OUT, volume |-> 0], "EURUSD", 8, 10)
              EXCEPT !.deal = Some(3), !.swap = 0]}
    \cup {Deal(1, t, BALANCE, [entry |-> ENTRY_IN, volume |-> 0], "", 7, 100) :
        t \in TimelineDealTimes}
    \cup {Deal(1, 8, SELL, [entry |-> ENTRY_IN, volume |-> 1], "GBPUSD", 7, 0)}
    \cup {Deal(1, 16, SELL, [entry |-> ENTRY_OUT, volume |-> 1], "EURUSD", 7, 10)}

FromDates == {10}
\* to_date 9 lies before from_date
ToDates == {9, 11, 20}
MagicFilters == {{7}, {7, 8}}

InitTimeline ==
    /\ utc_offset \in UtcOffsets
    /\ deals \in SeqsUpTo(TimelineDeals, MaxTimelineDeals)
    /\ pc = "idle"
    /\ call = [op |-> "none"]
    /\ result = None
    /\ balance_log = <<>>
    /\ IdleTimeline
    /\ IdleServices

Raised == [raised |-> TRUE, timeline |-> <<>>]

\* lines 283-430: the call up to the first Period
GetPositionsTimeline ==
    /\ pc = "idle"
    /\ \E from_date \in FromDates, to_date \in ToDates, magics \in MagicFilters :
          LET position_id_to_magic == PositionIdToMagic(TradingDeals(deals))
              sorted == AllRelevantDeals(deals, magics)
              start == PositionsAtStart(sorted, 1, <<>>, WindowTimestamp(from_date),
                                        position_id_to_magic)
              initial_balance ==
                  calculate_balance_at_date(from_date, deals, None, FALSE, TRUE)
          IN  /\ call' = [op |-> "get_positions_timeline", from_date |-> from_date,
                          to_date |-> to_date, magics |-> magics]
              /\ IF start.raised
                 THEN /\ pc' = "done"
                      /\ result' = Raised
                      /\ UNCHANGED timeline_vars
                 ELSE /\ pc' = "replay"
                      /\ all_relevant_deals' = sorted
                      /\ idx' = 1
                      /\ current_positions' = CopyAtStart(start.positions)
                      /\ timeline' = <<NewPeriod(CopyAtStart(start.positions),
                                                 from_date, initial_balance)>>
                      /\ current_balance' = initial_balance
                      /\ last_change' = 0
                      /\ UNCHANGED result
    /\ UNCHANGED <<utc_offset, deals, balance_log>>
    /\ UNCHANGED service_vars

\* lines 433-550: one iteration of the loop over the deals of the window
ReplayDeal ==
    /\ pc = "replay"
    /\ idx <= Len(all_relevant_deals)
    /\ LET deal == all_relevant_deals[idx]
           r == ApplyInWindow(current_positions, deal,
                              PositionIdToMagic(TradingDeals(deals)))
           balance == current_balance + r.balance_change
       IN  /\ deal.time <= WindowTimestamp(call.to_date)
           /\ IF deal.time < WindowTimestamp(call.from_date) \/ deal.position_id = 0
              THEN /\ idx' = idx + 1
                   /\ UNCHANGED <<pc, result, current_positions, timeline,
                                  current_balance, last_change>>
              ELSE IF r.raised
              THEN /\ pc' = "done"
                   /\ result' = Raised
                   /\ UNCHANGED <<idx, current_positions, timeline,
                                  current_balance, last_change>>
              ELSE /\ idx' = idx + 1
                   /\ current_positions' = r.positions
                   /\ current_balance' = balance
                   /\ last_change' = r.balance_change
                   /\ timeline' =
                         IF r.positions_changed
                         THEN AppendPeriod(timeline, r.positions,
                                           DealTimeLocal(deal), balance)
                         ELSE IF r.balance_change # 0
                         THEN UpdateLastBalance(timeline, balance)
                         ELSE timeline
                   /\ UNCHANGED <<pc, result>>
    /\ UNCHANGED <<utc_offset, deals, call, balance_log, all_relevant_deals>>
    /\ UNCHANGED service_vars

\* lines 436-437 and 552-556: the loop left, the last Period closed
ReturnTimeline ==
    /\ pc = "replay"
    /\ IF idx > Len(all_relevant_deals) THEN TRUE
       ELSE all_relevant_deals[idx].time > WindowTimestamp(call.to_date)
    /\ timeline' = SetLastTimeOut(timeline, call.to_date)
    /\ result' = [raised |-> FALSE, timeline |-> SetLastTimeOut(timeline, call.to_date)]
    /\ pc' = "done"
    /\ UNCHANGED <<utc_offset, deals, call, balance_log, all_relevant_deals, idx,
                   current_positions, current_balance, last_change>>
    /\ UNCHANGED service_vars

NextTimeline ==
    \/ GetPositionsTimeline
    \/ ReplayDeal
    \/ ReturnTimeline

SpecTimeline == InitTimeline /\ [][NextTimeline]_vars

-----------------------------------------------------------------------------
(* Claims about get_positions_timeline                                     *)

TimelineCalled == call.op = "get_positions_timeline"
Returned == pc = "done" /\ TimelineCalled /\ ~result.raised

ListedIds(period) == {period.positions[j].position_id : j \in DOMAIN period.positions}
ListedVolume(period, pid) ==
    period.positions[CHOOSE j \in DOMAIN period.positions :
                        period.positions[j].position_id = pid].volume

\* The start of the window in the deals' time frame, as the call converts it.
WindowStart == call.from_date - LOCAL_TIMESHIFT - utc_offset

\* A step of the in-window replay that moves past the deal at idx.
ReplayStepTaken ==
    /\ pc = "replay"
    /\ pc' = "replay"
    /\ idx <= Len(all_relevant_deals)
    /\ idx' = idx + 1

\* C5: in the returned timeline every Period's time_out is the next Period's
\* time_in, no time_out is unset, and the last time_out is to_date.
C5_TimelineContinuity ==
    Returned =>
        LET tl == result.timeline
        IN  /\ \A i \in 1..(Len(tl) - 1) : tl[i].time_out = Some(tl[i + 1].time_in)
            /\ \A i \in DOMAIN tl : ~IsNone(tl[i].time_out)
            /\ tl # <<>> => tl[Len(tl)].time_out = Some(call.to_date)

C5_Witness == Returned /\ Len(result.timeline) >= 3

\* No listed position has a negative volume.
C6_NoNegativeVolume ==
    \A k \in DOMAIN timeline : \A j \in DOMAIN timeline[k].positions :
        timeline[k].positions[j].volume >= 0

\* A position whose deals before the window end with a close of at least
\* everything opened before it is not in the first Period.
C6_ClosedBeforeWindow ==
    (TimelineCalled /\ timeline # <<>>) =>
        \A pid \in {1, 2} :
            LET pre == SelectSeq(all_relevant_deals,
                           LAMBDA d : d.position_id = pid /\ d.time < WindowStart)
                opened == SumOver({i \in 1..(Len(pre) - 1) : pre[i].entry = ENTRY_IN},
                                  [i \in 1..Len(pre) |-> Abs(pre[i].volume)])
            IN  (/\ pre # <<>>
                 /\ pre[Len(pre)].entry = ENTRY_OUT
                 /\ Abs(pre[Len(pre)].volume) > 0
                 /\ Abs(pre[Len(pre)].volume) >= opened)
                => pid \notin ListedIds(timeline[1])

\* In the window: a close of at least the listed volume opens a Period
\* without the position; a position enters a Period only by an opening deal
\* of its own; the Periods already written keep their positions.
C6_ClosureStep ==
    ReplayStepTaken =>
        LET deal == all_relevant_deals[idx]
            pid == deal.position_id
            last == timeline[Len(timeline)]
        IN  /\ (/\ deal.time >= WindowStart
                /\ deal.entry = ENTRY_OUT
                /\ Abs(deal.volume) > 0
                /\ pid \in ListedIds(last)
                /\ ListedVolume(last, pid) - Abs(deal.volume) <= 0)
               => /\ Len(timeline') = Len(timeline) + 1
                  /\ pid \notin ListedIds(timeline'[Len(timeline')])
            /\ \A k \in DOMAIN timeline : timeline'[k].positions = timeline[k].positions
            /\ \A k \in DOMAIN timeline' \ DOMAIN timeline :
                  \A q \in ListedIds(timeline'[k]) \ ListedIds(last) :
                      q = pid /\ deal.entry = ENTRY_IN

\* C6: no Period lists a negative volume, and a position closed down to a
\* volume <= 0 is absent from the Period that close opens and from the later
\* ones until an opening deal of the same position_id.
C6_PositionClosure ==
    [](C6_NoNegativeVolume /\ C6_ClosedBeforeWindow) /\ [][C6_ClosureStep]_vars

\* A position closed in the window, a Period without it, and reopened later.
C6_Witness ==
    /\ Returned
    /\ \E k \in DOMAIN result.timeline :
          /\ k + 2 <= Len(result.timeline)
          /\ 1 \in ListedIds(result.timeline[k])
          /\ 1 \notin ListedIds(result.timeline[k + 1])
          /\ 1 \in ListedIds(result.timeline[k + 2])

\* C7 as stated: every opening deal of the window changes the running
\* balance by its swap, every close (volume > 0) of an open position by
\* profit + swap + 2 * commission.
C7_EveryOpeningDealAddsSwap ==
    [][ReplayStepTaken =>
        LET deal == all_relevant_deals[idx]
        IN  /\ (deal.time >= WindowStart /\ deal.entry = ENTRY_IN)
               => current_balance' - current_balance = deal.swap
            /\ (/\ deal.time >= WindowStart
                /\ deal.entry = ENTRY_OUT
                /\ deal.volume > 0
                /\ HasPosition(current_positions, deal.position_id))
               => current_balance' - current_balance
                     = deal.profit + deal.swap + 2 * deal.commission]_vars

\* C7: an opening deal of the window with a position_id other than 0 changes
\* the running balance by its swap only; a close (volume > 0) of an open
\* position changes it by profit + swap + 2 * commission.
C7_DoubleCommission ==
    [][ReplayStepTaken =>
        LET deal == all_relevant_deals[idx]
        IN  /\ (/\ deal.time >= WindowStart
                /\ deal.position_id # 0
                /\ deal.entry = ENTRY_IN)
               => current_balance' - current_balance = deal.swap
            /\ (/\ deal.time >= WindowStart
                /\ deal.entry = ENTRY_OUT
                /\ deal.volume > 0
                /\ HasPosition(current_positions, deal.position_id))
               => current_balance' - current_balance
                     = deal.profit + deal.swap + 2 * deal.commission]_vars

\* A close with profit 10, swap -1 and commission -2 has just changed the
\* balance by 5, after an opening deal of the window changed it by -1.
C7_Witness ==
    /\ pc = "replay"
    /\ idx > 2
    /\ all_relevant_deals[idx - 2].time >= WindowStart
    /\ all_relevant_deals[idx - 2].entry = ENTRY_IN
    /\ all_relevant_deals[idx - 2].position_id # 0
    /\ all_relevant_deals[idx - 1].entry = ENTRY_OUT
    /\ all_relevant_deals[idx - 1].volume > 0
    /\ last_change = 5
    /\ timeline[Len(timeline)].balance
          = timeline[Len(timeline) - 1].balance + 5

\* The position's magic: that of its last trading deal with a magic.
MatchesFilter(pid) ==
    \E i \in DOMAIN deals :
        /\ deals[i].type # BALANCE
        /\ deals[i].position_id = pid
        /\ \/ deals[i].magic \in call.magics
           \/ \E j \in DOMAIN deals :
                 /\ deals[j].type # BALANCE
                 /\ deals[j].position_id = pid
                 /\ deals[j].magic # 0
                 /\ deals[j].magic \in call.magics
                 /\ \A k \in DOMAIN deals :
                       (/\ k > j
                        /\ deals[k].type # BALANCE
                        /\ deals[k].position_id = pid) => deals[k].magic = 0

\* The net volume of a position after its deals before the window: -1
\* stands for no open position.
RECURSIVE NetVolume(_, _, _)
NetVolume(ds, i, open) ==
    IF i > Len(ds) THEN (IF open < 0 THEN 0 ELSE open)
    ELSE IF ds[i].entry = ENTRY_IN
         THEN NetVolume(ds, i + 1, (IF open < 0 THEN 0 ELSE open) + Abs(ds[i].volume))
         ELSE IF open < 0 \/ open - Abs(ds[i].volume) <= 0
              THEN NetVolume(ds, i + 1, -1)
              ELSE NetVolume(ds, i + 1, open - Abs(ds[i].volume))

NetVolumeBefore(pid) ==
    NetVolume(SelectSeq(SortByTimeAndDeal(deals),
                  LAMBDA d : d.type # BALANCE /\ d.position_id = pid
                             /\ d.time < WindowStart),
              1, -1)

\* C8 as stated: the first Period lists exactly the matching positions with
\* a net volume > 0 before the window, and no Period lists a position that
\* matches no magic of the filter.
C8_FirstPeriodExact ==
    (TimelineCalled /\ timeline # <<>>) =>
        /\ ListedIds(timeline[1])
              = {pid \in {1, 2} : MatchesFilter(pid) /\ NetVolumeBefore(pid) > 0}
        /\ \A k \in DOMAIN timeline : \A pid \in ListedIds(timeline[k]) :
              pid # 0 /\ MatchesFilter(pid)

\* No deal matches the magic filter, by its own magic or by the magic of
\* its position.
NoDealMatchesFilter == \A i \in DOMAIN deals : ~MatchesFilter(deals[i].position_id)

\* C11: the call returns an empty timeline when the deal list is empty and
\* when no deal matches the magic filter.
C11_EmptyTimeline ==
    (Returned /\ (deals = <<>> \/ NoDealMatchesFilter)) => result.timeline = <<>>

-----------------------------------------------------------------------------
(* The windowed operations called with any window                          *)

\* src/utils/helpers.py, lines 178-181
validate_date_range(from_date, to_date) == from_date <= to_date

\* Both windowed operations on one deal history.
NextWindowed ==
    \/ CalculateByMagics
    \/ GetPositionsTimeline
    \/ ReplayDeal
    \/ ReturnTimeline

SpecWindowed == InitAggregate /\ [][NextWindowed]_vars

\* The window of the finished call starts after its end.
InvertedWindow ==
    /\ pc = "done"
    /\ IF call.op = "calculate_by_magics"
       THEN /\ ~IsNone(call.from_date)
            /\ ~IsNone(call.to_date)
            /\ ~validate_date_range(Val(call.from_date), Val(call.to_date))
       ELSE ~validate_date_range(call.from_date, call.to_date)

IsInvalidRange(r) == "error" \in DOMAIN r /\ r.error = "InvalidRange"

\* C12: get_positions_timeline and calculate_by_magics called with
\* window_start > window_end end in an InvalidRange error, not in a timeline
\* or an aggregate.
C12_InvalidRangeRejected == InvertedWindow => IsInvalidRange(result)

-----------------------------------------------------------------------------
(* PerformanceUtils.calculate_percentage_change                            *)

\* A float as the exact fraction n / d in lowest terms, d > 0.
Fraction(n, d) == IF d < 0 THEN Ratio(-n, -d) ELSE Ratio(n, d)

\* src/utils/helpers.py, lines 70-75
calculate_percentage_change(current, start) ==
    IF start = 0 THEN Fraction(0, 1)
    ELSE Fraction(current * 100, start)

PercentageCurrents == {-110, -100, -90, -50, 0, 50, 90, 100, 110, 200}
PercentageStarts == {-100, -50, 0, 50, 100, 200}

InitPercentage ==
    /\ utc_offset = 0
    /\ deals = <<>>
    /\ pc = "idle"
    /\ call \in [op : {"calculate_percentage_change"},
                 current : PercentageCurrents, start : PercentageStarts]
    /\ result = None
    /\ balance_log = <<>>
    /\ IdleTimeline
    /\ IdleServices

CalculatePercentageChange ==
    /\ pc = "idle"
    /\ call.op = "calculate_percentage_change"
    /\ result' = calculate_percentage_change(call.current, call.start)
    /\ pc' = "done"
    /\ UNCHANGED <<utc_offset, deals, call, balance_log>>
    /\ UNCHANGED timeline_vars
    /\ UNCHANGED service_vars

NextPercentage == CalculatePercentageChange

SpecPercentage == InitPercentage /\ [][NextPercentage]_vars

\* C13: calculate_percentage_change(current, start) is
\* (current - start) / start * 100 for start # 0 (10 for 110 against 100,
\* -10 for 90 against 100) and 0 for start = 0.
C13_PercentageChange ==
    (pc = "done" /\ call.op = "calculate_percentage_change") =>
        IF call.start = 0 THEN result = Fraction(0, 1)
        ELSE result = Fraction((call.current - call.start) * 100, call.start)

-----------------------------------------------------------------------------
(* DatabaseManager: the magic descriptions                                 *)

\* An sqlite database: the tables it holds and the rows of
\* magic_descriptions, a description per primary key <<account, magic>>.
EmptyDb == [tables |-> {}, rows |-> EmptyDict]

\* lines 18-20, sqlite3.connect(self.db_path): a file path opens the
\* database file, ":memory:" opens a new, empty, private database
Connect(db) == IF db.db_path = ":memory:" THEN EmptyDb ELSE db.file

\* lines 22-24 after conn.commit(): the connection is closed; the file keeps
\* what was committed, an in-memory database is gone
CommitAndClose(db, conn) ==
    IF db.db_path = ":memory:" THEN db ELSE [db EXCEPT !.file = conn]

\* lines 26-45: CREATE TABLE IF NOT EXISTS for every table of
\* DatabaseConfig.TABLES (settings.py 128-137); the two ALTER TABLE of
\* account_settings fail on the missing table and are passed over
init_database(db) ==
    LET conn == Connect(db)
    IN  CommitAndClose(db, [conn EXCEPT !.tables = @ \cup {"magic_descriptions"}])

NoSuchTable == [raised |-> TRUE, value |-> None]
Returns(v) == [raised |-> FALSE, value |-> v]

\* lines 47-56
get_magic_description(db, account, magic) ==
    LET conn == Connect(db)
    IN  IF "magic_descriptions" \notin conn.tables THEN NoSuchTable
        ELSE IF <<account, magic>> \in DOMAIN conn.rows
             THEN Returns(Some(conn.rows[<<account, magic>>]))
             ELSE Returns(None)

\* INSERT OR REPLACE on the primary key
InsertOrReplace(rows, key, description) ==
    [k \in DOMAIN rows \cup {key} |-> IF k = key THEN description ELSE rows[k]]

\* lines 58-66
set_magic_description(db, account, magic, description) ==
    LET conn == Connect(db)
    IN  IF "magic_descriptions" \notin conn.tables
        THEN [out |-> NoSuchTable, db |-> db]
        ELSE [out |-> Returns(None),
              db |-> CommitAndClose(db, [conn EXCEPT !.rows =
                        InsertOrReplace(@, <<account, magic>>, description)])]

\* lines 68-76
get_all_magic_descriptions(db, account) ==
    LET conn == Connect(db)
    IN  IF "magic_descriptions" \notin conn.tables THEN NoSuchTable
        ELSE Returns([magic \in {k[2] : k \in {h \in DOMAIN conn.rows : h[1] = account}}
                         |-> conn.rows[<<account, magic>>]])

\* lines 78-86
delete_magic_description(db, account, magic) ==
    LET conn == Connect(db)
    IN  IF "magic_descriptions" \notin conn.tables
        THEN [out |-> NoSuchTable, db |-> db]
        ELSE [out |-> Returns(None),
              db |-> CommitAndClose(db, [conn EXCEPT !.rows =
                        [k \in DOMAIN @ \ {<<account, magic>>} |-> @[k]]])]

DbPaths == {":memory:", "magics.db"}
DbAccounts == {"a", "b"}
DbMagics == {1, 2}
DbDescriptions == {"x", "y"}

\* lines 14-15: a DatabaseManager constructed on a path, nothing called yet
InitDatabase ==
    /\ utc_offset = 0
    /\ deals = <<>>
    /\ pc = "idle"
    /\ call = [op |-> "none"]
    /\ result = None
    /\ balance_log = <<>>
    /\ IdleTimeline
    /\ database \in [db_path : DbPaths, file : {EmptyDb}, log : {<<>>}]
    /\ connection = [is_initialized |-> FALSE]

\* The call and its outcome appended to the record of the calls made.
Logged(db, c, out) ==
    [db EXCEPT !.log = Append(@, [call |-> c, out |-> out])]

DbFrame == UNCHANGED <<utc_offset, deals, pc, balance_log, connection>> /\ UNCHANGED timeline_vars

CallInitDatabase ==
    /\ Len(database.log) < MaxDbCalls
    /\ call' = [op |-> "init_database"]
    /\ result' = Returns(None)
    /\ database' = Logged(init_database(database), call', result')
    /\ DbFrame

CallSetMagicDescription ==
    /\ Len(database.log) < MaxDbCalls
    /\ \E account \in DbAccounts, magic \in DbMagics, description \in DbDescriptions :
          LET r == set_magic_description(database, account, magic, description)
          IN  /\ call' = [op |-> "set_magic_description", account |-> account,
                          magic |-> magic, description |-> description]
              /\ result' = r.out
              /\ database' = Logged(r.db, call', result')
    /\ DbFrame

CallGetMagicDescription ==
    /\ Len(database.log) < MaxDbCalls
    /\ \E account \in DbAccounts, magic \in DbMagics :
          /\ call' = [op |-> "get_magic_description", account |-> account,
                      magic |-> magic]
          /\ result' = get_magic_description(database, account, magic)
          /\ database' = Logged(database, call', result')
    /\ DbFrame

CallGetAllMagicDescriptions ==
    /\ Len(database.log) < MaxDbCalls
    /\ \E account \in DbAccounts :
          /\ call' = [op |-> "get_all_magic_descriptions", account |-> account]
          /\ result' = get_all_magic_descriptions(database, account)
          /\ database' = Logged(database, call', result')
    /\ DbFrame

CallDeleteMagicDescription ==
    /\ Len(database.log) < MaxDbCalls
    /\ \E account \in DbAccounts, magic \in DbMagics :
          LET r == delete_magic_description(database, account, magic)
          IN  /\ call' = [op |-> "delete_magic_description", account |-> account,
                          magic |-> magic]
              /\ result' = r.out
              /\ database' = Logged(r.db, call', result')
    /\ DbFrame

NextDatabase ==
    \/ CallInitDatabase
    \/ CallSetMagicDescription
    \/ CallGetMagicDescription
    \/ CallGetAllMagicDescriptions
    \/ CallDeleteMagicDescription

SpecDatabase == InitDatabase /\ [][NextDatabase]_vars

\* The description the calls before the i-th leave for a key: that of the
\* last set with no later delete, None otherwise.
CurrentDescription(log, i, account, magic) ==
    LET writes == {j \in 1..(i - 1) :
                      /\ log[j].call.op \in {"set_magic_description",
                                             "delete_magic_description"}
                      /\ log[j].call.account = account
                      /\ log[j].call.magic = magic}
    IN  IF writes = {} THEN None
        ELSE LET last == log[CHOOSE j \in writes : \A h \in writes : h <= j].call
             IN  IF last.op = "set_magic_description" THEN Some(last.description)
                 ELSE None

\* The label store contract for a DatabaseManager on db_path that was
\* initialised first: no call fails, every read returns the current entries.
RoundTripOn(db_path) ==
    LET log == database.log
    IN  (/\ database.db_path = db_path
         /\ log # <<>>
         /\ log[1].call.op = "init_database")
        => \A i \in 2..Len(log) :
              /\ ~log[i].out.raised
              /\ log[i].call.op = "get_magic_description"
                    => log[i].out.value
                          = CurrentDescription(log, i, log[i].call.account,
                                               log[i].call.magic)
              /\ log[i].call.op = "get_all_magic_descriptions"
                    => LET current == {m \in DbMagics :
                              ~IsNone(CurrentDescription(log, i, log[i].call.account, m))}
                       IN  log[i].out.value
                              = [m \in current |->
                                    Val(CurrentDescription(log, i, log[i].call.account, m))]

\* C14: on a DatabaseManager built on ":memory:" and initialised, after any
\* sequence of set and delete calls get_magic_description returns the most
\* recent description set and not deleted since (None otherwise),
\* get_all_magic_descriptions holds exactly the current entries, and other
\* keys are left alone.
C14_LabelRoundTrip == RoundTripOn(":memory:")

-----------------------------------------------------------------------------
(* MT5Connection and MT5DataProvider.get_history                           *)

\* What the terminal does during one call: a terminal64.exe process is
\* running, mt5.initialize(path) and mt5.initialize() succeed, the caller
\* passes an account, the server accepts the login, account information is
\* available, and what mt5.history_deals_get returns.
Environments ==
    [running : BOOLEAN, init_path : BOOLEAN, init_default : BOOLEAN,
     account : BOOLEAN, authorized : BOOLEAN, info : BOOLEAN,
     history : {None, Some(<<>>), Some(<<"deal">>)}]

\* lines 24-35: the terminal library after the initialize attempts
TerminalAfterInitialize(env) ==
    IF env.running
    THEN (IF env.init_path \/ env.init_default THEN "up" ELSE "down")
    ELSE (IF env.init_default THEN "up" ELSE "down")

InitializeFlagFirst(conn, env) ==
    LET terminal == TerminalAfterInitialize(env)
    IN  IF env.account /\ ~(terminal = "up" /\ env.authorized)
        THEN [ok |-> FALSE,
              conn |-> [conn EXCEPT !.terminal = "down", !.logins = @ + 1,
                                    !.is_initialized = TRUE]]
        ELSE [ok |-> TRUE,
              conn |-> [conn EXCEPT !.terminal = terminal,
                                    !.logins = IF env.account THEN @ + 1 ELSE @,
                                    !.is_initialized = TRUE]]

\* lines 22-49: MT5Connection.initialize; a rejected login shuts the
\* terminal library down and leaves is_initialized as it was
Initialize(conn, env) ==
    LET terminal == TerminalAfterInitialize(env)
    IN  IF env.account /\ ~(terminal = "up" /\ env.authorized)
        THEN [ok |-> FALSE,
              conn |-> [conn EXCEPT !.terminal = "down", !.logins = @ + 1]]
        ELSE [ok |-> TRUE,
              conn |-> [conn EXCEPT !.terminal = terminal,
                                    !.logins = IF env.account THEN @ + 1 ELSE @,
                                    !.is_initialized = TRUE]]

\* lines 51-55: MT5Connection.shutdown
Shutdown(conn) ==
    IF conn.is_initialized
    THEN [conn EXCEPT !.terminal = "down", !.is_initialized = FALSE]
    ELSE conn

\* lines 57-61: MT5Connection.get_account_info
GetAccountInfo(conn, env) ==
    IF ~conn.is_initialized THEN None
    ELSE IF conn.terminal = "up" /\ env.info THEN Some("account_info")
    ELSE None

\* lines 70-94: get_history; logins and fetches count the mt5.login and
\* mt5.history_deals_get calls of this call
get_history(conn, env) ==
    LET entered == [conn EXCEPT !.logins = 0, !.fetches = 0, !.calls = @ + 1]
        init == Initialize(entered, env)
        account_info == GetAccountInfo(init.conn, env)
    IN  IF ~init.ok THEN [value |-> <<None, None>>, conn |-> init.conn]
        ELSE IF IsNone(account_info)
        THEN [value |-> <<None, None>>, conn |-> Shutdown(init.conn)]
        ELSE [value |-> <<env.history, account_info>>,
              conn |-> Shutdown([init.conn EXCEPT !.fetches = @ + 1])]

\* lines 67-68: an MT5DataProvider with its MT5Connection, nothing called yet
InitHistory ==
    /\ utc_offset = 0
    /\ deals = <<>>
    /\ pc = "idle"
    /\ call = [op |-> "none"]
    /\ result = None
    /\ balance_log = <<>>
    /\ IdleTimeline
    /\ database = [db_path |-> "none"]
    /\ connection = [is_initialized |-> FALSE, terminal |-> "down",
                     logins |-> 0, fetches |-> 0, calls |-> 0]

GetHistory ==
    /\ connection.calls < MaxHistoryCalls
    /\ \E env \in Environments :
          LET r == get_history(connection, env)
          IN  /\ call' = [op |-> "get_history", env |-> env]
              /\ result' = r.value
              /\ connection' = r.conn
    /\ UNCHANGED <<utc_offset, deals, pc, balance_log, database>>
    /\ UNCHANGED timeline_vars

NextHistory == GetHistory

SpecHistory == InitHistory /\ [][NextHistory]_vars

\* The last call was get_history and the login was rejected, or account
\* information was not available.
LoginRejected ==
    /\ call.op = "get_history"
    /\ call.env.account
    /\ ~(TerminalAfterInitialize(call.env) = "up" /\ call.env.authorized)

InfoUnavailable ==
    /\ call.op = "get_history"
    /\ ~(TerminalAfterInitialize(call.env) = "up" /\ call.env.info)

\* C15: when the login is rejected or account information is unavailable
\* get_history returns (None, None) after one attempt, without a retry and
\* without fetching deals; on every return path the connection has been
\* shut down (is_initialized is False).
C15_FetchFailure ==
    call.op = "get_history" =>
        /\ ~connection.is_initialized
        /\ connection.terminal = "down"
        /\ (LoginRejected \/ InfoUnavailable) =>
              /\ result = <<None, None>>
              /\ connection.fetches = 0
              /\ connection.logins <= 1

\* The second call of a provider had its login rejected.
C15_Witness ==
    /\ LoginRejected
    /\ connection.calls = 2
    /\ result = <<None, None>>
    /\ connection.logins = 1

C15_WitnessNoInfo ==
    /\ InfoUnavailable
    /\ ~LoginRejected
    /\ result = <<None, None>>

-----------------------------------------------------------------------------
(* Further claims about get_positions_timeline                             *)

\* C16: in the window an entry=Out deal of volume 0 on an open position
\* changes the running balance by its swap only, leaves current_positions
\* as they are, appends no Period, sets no time_out and, when its swap is
\* not 0, writes the new running balance into the last Period.
C16_SwapTick ==
    [][ReplayStepTaken =>
        LET deal == all_relevant_deals[idx]
            n == Len(timeline)
        IN  (/\ deal.time >= WindowStart
             /\ deal.entry = ENTRY_OUT
             /\ deal.volume = 0
             /\ HasPosition(current_positions, deal.position_id))
            => /\ current_balance' - current_balance = deal.swap
               /\ current_positions' = current_positions
               /\ Len(timeline') = n
               /\ \A k \in 1..n :
                     /\ timeline'[k].time_out = timeline[k].time_out
                     /\ timeline'[k].time_in = timeline[k].time_in
                     /\ timeline'[k].positions = timeline[k].positions
                     /\ k < n => timeline'[k].balance = timeline[k].balance
               /\ deal.swap # 0 => timeline'[n].balance = current_balance'
               /\ deal.swap = 0 => timeline'[n].balance = timeline[n].balance]_vars

\* A swap tick on a position opened in the window has just moved the balance
\* of the last Period by -1, the Period still open.
C16_Witness ==
    /\ pc = "replay"
    /\ idx > 2
    /\ Len(timeline) = 2
    /\ all_relevant_deals[idx - 2].entry = ENTRY_IN
    /\ all_relevant_deals[idx - 2].time >= WindowStart
    /\ all_relevant_deals[idx - 1].entry = ENTRY_OUT
    /\ all_relevant_deals[idx - 1].volume = 0
    /\ all_relevant_deals[idx - 1].swap = -1
    /\ all_relevant_deals[idx - 1].position_id = all_relevant_deals[idx - 2].position_id
    /\ HasPosition(current_positions, all_relevant_deals[idx - 1].position_id)
    /\ last_change = -1
    /\ timeline[2].balance = timeline[1].balance - 2
    /\ IsNone(timeline[2].time_out)

\* lines 433-550: the loop over the deals of the window as one function of
\* the sorted deals; st holds current_positions, timeline, current_balance
RECURSIVE ReplayWindow(_, _, _, _, _, _)
ReplayWindow(sorted, i, st, from_timestamp, to_timestamp, position_id_to_magic) ==
    IF i > Len(sorted) THEN st
    ELSE IF sorted[i].time < from_timestamp
    THEN ReplayWindow(sorted, i + 1, st, from_timestamp, to_timestamp, position_id_to_magic)
    ELSE IF sorted[i].time > to_timestamp THEN st
    ELSE IF sorted[i].position_id = 0
    THEN ReplayWindow(sorted, i + 1, st, from_timestamp, to_timestamp, position_id_to_magic)
    ELSE LET deal == sorted[i]
             r == ApplyInWindow(st.positions, deal, position_id_to_magic)
             balance == st.balance + r.balance_change
         IN  IF r.raised THEN [st EXCEPT !.raised = TRUE]
             ELSE ReplayWindow(sorted, i + 1,
                     [raised |-> FALSE,
                      positions |-> r.positions,
                      balance |-> balance,
                      timeline |->
                          IF r.positions_changed
                          THEN AppendPeriod(st.timeline, r.positions,
                                            DealTimeLocal(deal), balance)
                          ELSE IF r.balance_change # 0
                          THEN UpdateLastBalance(st.timeline, balance)
                          ELSE st.timeline],
                     from_timestamp, to_timestamp, position_id_to_magic)

\* lines 283-556: the whole call as a function of its arguments
get_positions_timeline(from_date, to_date, magics, ds) ==
    LET position_id_to_magic == PositionIdToMagic(TradingDeals(ds))
        sorted == AllRelevantDeals(ds, magics)
        start == PositionsAtStart(sorted, 1, <<>>, WindowTimestamp(from_date),
                                  position_id_to_magic)
        initial_balance == calculate_balance_at_date(from_date, ds, None, FALSE, TRUE)
        current == CopyAtStart(start.positions)
        final == ReplayWindow(sorted, 1,
                     [raised |-> FALSE, positions |-> current,
                      balance |-> initial_balance,
                      timeline |-> <<NewPeriod(current, from_date, initial_balance)>>],
                     WindowTimestamp(from_date), WindowTimestamp(to_date),
                     position_id_to_magic)
    IN  IF start.raised \/ final.raised THEN Raised
        ELSE [raised |-> FALSE, timeline |-> SetLastTimeOut(final.timeline, to_date)]

\* The call that has finished returned what the function gives.
StepsAgreeWithFunction ==
    (pc = "done" /\ TimelineCalled) =>
        result = get_positions_timeline(call.from_date, call.to_date, call.magics, deals)

\* Every deal carries a deal id and no two deals share one.
DistinctDealIds(ds) ==
    /\ \A i \in DOMAIN ds : ~IsNone(ds[i].deal)
    /\ \A i, j \in DOMAIN ds : i # j => ds[i].deal # ds[j].deal

Reorderings(ds) ==
    {[i \in DOMAIN ds |-> ds[f[i]]] :
        f \in {g \in [DOMAIN ds -> DOMAIN ds] : \A i, j \in DOMAIN ds : i # j => g[i] # g[j]}}

\* C17: for a deal list with distinct deal ids the call returns the same
\* timeline for every reordering of the list.
C17_OrderIndependent ==
    (pc = "done" /\ TimelineCalled /\ DistinctDealIds(deals)) =>
        \A ds \in Reorderings(deals) :
            get_positions_timeline(call.from_date, call.to_date, call.magics, ds) = result

\* A position opened before the window carries the magic the resolver of
\* calculate_by_magics gives to one of its opening deals before the window.
C18_StartMagicResolved ==
    (TimelineCalled /\ timeline # <<>>) =>
        \A j \in DOMAIN timeline[1].positions :
            LET pos == timeline[1].positions[j]
            IN  \E i \in DOMAIN deals :
                    /\ deals[i].type # BALANCE
                    /\ deals[i].position_id = pos.position_id
                    /\ deals[i].entry = ENTRY_IN
                    /\ deals[i].time < WindowStart
                    /\ pos.magic = ResolveMagic(deals[i], deals)

\* A position opened in the window carries the magic the resolver of
\* calculate_by_magics gives to the deal that opens it.
C18_OpeningMagicResolved ==
    ReplayStepTaken =>
        LET deal == all_relevant_deals[idx]
        IN  (/\ deal.time >= WindowStart
             /\ deal.position_id # 0
             /\ deal.entry = ENTRY_IN
             /\ ~HasPosition(current_positions, deal.position_id))
            => current_positions'[Len(current_positions')].magic
                  = ResolveMagic(deal, deals)

\* C18: the magic the timeline gives to a position is the magic the resolver
\* of calculate_by_magics returns for the position's first opening deal: its
\* own magic if not 0, else that of the first deal of the list with the same
\* position_id and a non-zero magic, else 0.
C18_SameResolver == []C18_StartMagicResolved /\ [][C18_OpeningMagicResolved]_vars

-----------------------------------------------------------------------------
(* Further claims about calculate_by_magics                                *)

\* The amounts of the contributing deals that the result keys by k.
KeyedBy(k) == {j \in Contributing : result.keyed[j].display_key = k}

\* The group the grouping lists last among those holding the magic.
LastGroupHolding(magic) ==
    LET groups == Val(call.magic_groups)
        at == {n \in DOMAIN groups : magic \in groups[n].magics}
    IN  groups[CHOOSE n \in at : \A h \in at : h <= n]

ResolvesToZero == \E i \in Contributing : result.keyed[i].display_key = 0

\* C20: when some contributing deal resolves to key 0, "Summ only magics"
\* is "Summ" minus the per-key total of key 0, which is the sum of the
\* per-key totals of the keys other than 0; when none does, the entry is
\* absent.
C20_SummOnlyMagics ==
    Aggregated =>
        IF ResolvesToZero
        THEN /\ 0 \in DOMAIN result.TotalByMagic
             /\ result.SummOnlyMagics
                   = Some(result.Summ - result.TotalByMagic[0])
             /\ Val(result.SummOnlyMagics)
                   = SumOver(DOMAIN result.TotalByMagic \ {0}, result.TotalByMagic)
        ELSE IsNone(result.SummOnlyMagics)

\* A deal under key 0 beside a deal under another key: the entry is present
\* and differs from "Summ".
C20_Witness ==
    /\ Aggregated
    /\ ResolvesToZero
    /\ DOMAIN result.TotalByMagic \ {0} # {}
    /\ result.TotalByMagic[0] # 0
    /\ ~IsNone(result.SummOnlyMagics)
    /\ Val(result.SummOnlyMagics) # result.Summ

\* Contributing deals, none of them under key 0: the entry is absent.
C20_WitnessAbsent ==
    /\ Aggregated
    /\ Contributing # {}
    /\ ~ResolvesToZero
    /\ IsNone(result.SummOnlyMagics)

-----------------------------------------------------------------------------
(* Listed positions: volume and price_open                                 *)

\* C21: every position listed in a Period of the returned timeline has a
\* volume greater than 0, whatever the deals, opening deals of volume 0
\* included.
C21_ListedVolumePositive ==
    Returned =>
        \A k \in DOMAIN result.timeline :
            \A j \in DOMAIN result.timeline[k].positions :
                result.timeline[k].positions[j].volume > 0

\* The prices of the opening deals the history holds for a position.
OpeningPrices(pid) ==
    {deals[i].price : i \in {j \in DOMAIN deals :
        /\ deals[j].type # BALANCE
        /\ deals[j].position_id = pid
        /\ deals[j].entry = ENTRY_IN}}

\* C22: the price_open of every listed position lies between the lowest and
\* the highest price of the position's opening deals, partial closes between
\* two opening deals included.
C22_PriceOpenWithinOpeningPrices ==
    Returned =>
        \A k \in DOMAIN result.timeline :
            \A j \in DOMAIN result.timeline[k].positions :
                LET p == result.timeline[k].positions[j]
                IN  \A lo, hi \in OpeningPrices(p.position_id) :
                        (/\ \A x \in OpeningPrices(p.position_id) : lo <= x /\ x <= hi)
                        => /\ lo * p.price_open.den <= p.price_open.num
                           /\ p.price_open.num <= hi * p.price_open.den

-----------------------------------------------------------------------------
(* Reuse of a position_id                                                  *)

\* The deals of one position end with a close (volume > 0) of at least
\* everything its opening deals opened.
FullyClosed(mine) ==
    /\ mine # <<>>
    /\ \E i \in 1..(Len(mine) - 1) : mine[i].entry = ENTRY_IN
    /\ mine[Len(mine)].entry = ENTRY_OUT
    /\ Abs(mine[Len(mine)].volume) > 0
    /\ Abs(mine[Len(mine)].volume)
          >= SumOver({i \in 1..(Len(mine) - 1) : mine[i].entry = ENTRY_IN},
                     [i \in 1..Len(mine) |-> Abs(mine[i].volume)])

\* The position is listed as the opening deal alone makes it.
ListedAsOpenedBy(period, deal) ==
    /\ deal.position_id \in ListedIds(period)
    /\ \A j \in DOMAIN period.positions :
          period.positions[j].position_id = deal.position_id =>
              /\ period.positions[j].symbol = deal.symbol
              /\ period.positions[j].direction = (IF deal.type = BUY THEN "Buy" ELSE "Sell")
              /\ period.positions[j].volume = Abs(deal.volume)
              /\ period.positions[j].price_open = Price(deal.price)

\* Before the window: a position fully closed and then opened again by one
\* deal is in the first Period as that deal alone makes it.
C23_ReopenedBeforeWindow ==
    (TimelineCalled /\ timeline # <<>>) =>
        \A pid \in {1, 2} :
            LET pre == SelectSeq(all_relevant_deals,
                           LAMBDA d : d.position_id = pid /\ d.time < WindowStart)
            IN  (/\ Len(pre) >= 3
                 /\ pre[Len(pre)].entry = ENTRY_IN
                 /\ FullyClosed(SubSeq(pre, 1, Len(pre) - 1)))
                => ListedAsOpenedBy(timeline[1], pre[Len(pre)])

\* In the window: an opening deal for a position fully closed earlier opens
\* a Period listing the position as that deal alone makes it, with fresh
\* accumulators.
C23_ReopenStep ==
    ReplayStepTaken =>
        LET deal == all_relevant_deals[idx]
            pid == deal.position_id
            earlier == SelectSeq(SubSeq(all_relevant_deals, 1, idx - 1),
                                 LAMBDA d : d.position_id = pid)
        IN  (/\ deal.time >= WindowStart
             /\ pid # 0
             /\ deal.entry = ENTRY_IN
             /\ FullyClosed(earlier))
            => /\ Len(timeline') = Len(timeline) + 1
               /\ ListedAsOpenedBy(timeline'[Len(timeline')], deal)
               /\ \A j \in DOMAIN current_positions' :
                     current_positions'[j].position_id = pid =>
                         /\ current_positions'[j].total_volume = Abs(deal.volume)
                         /\ current_positions'[j].total_price_volume
                               = deal.price * Abs(deal.volume)

\* C23: an opening deal for a position_id whose position was fully closed
\* earlier in the replay lists a new position whose symbol, direction,
\* volume and price_open come from the deals after that close only; no
\* accumulator of the closed position carries over.
C23_ReuseSplitsOnClose ==
    []C23_ReopenedBeforeWindow /\ [][C23_ReopenStep]_vars

\* Position 1 bought 2 EURUSD at 100, was closed, and is listed again in
\* the window as 1 GBPUSD sold at 110.
C23_Witness ==
    /\ Returned
    /\ Len(all_relevant_deals) = 3
    /\ all_relevant_deals[1].entry = ENTRY_IN
    /\ all_relevant_deals[1].volume = 2
    /\ all_relevant_deals[1].symbol = "EURUSD"
    /\ FullyClosed(SubSeq(all_relevant_deals, 1, 2))
    /\ all_relevant_deals[3].time >= WindowStart
    /\ all_relevant_deals[3].entry = ENTRY_IN
    /\ all_relevant_deals[3].symbol = "GBPUSD"
    /\ \A i \in 1..3 : all_relevant_deals[i].position_id = 1
    /\ LET last == result.timeline[Len(result.timeline)]
       IN  /\ Len(last.positions) = 1
           /\ last.positions[1].symbol = "GBPUSD"
           /\ last.positions[1].direction = "Sell"
           /\ last.positions[1].volume = 1
           /\ last.positions[1].price_open = Price(110)

\* The same reuse wholly before the window, seen in the first Period.
C23_WitnessBeforeWindow ==
    /\ Returned
    /\ Len(all_relevant_deals) = 3
    /\ \A i \in 1..3 : /\ all_relevant_deals[i].position_id = 1
                       /\ all_relevant_deals[i].time < WindowStart
    /\ all_relevant_deals[1].volume = 2
    /\ FullyClosed(SubSeq(all_relevant_deals, 1, 2))
    /\ all_relevant_deals[3].entry = ENTRY_IN
    /\ all_relevant_deals[3].volume = 1
    /\ result.timeline[1].positions # <<>>
    /\ result.timeline[1].positions[1].volume = 1

-----------------------------------------------------------------------------
(* calculate_by_magics: the symbol filter and BalanceChange deals           *)

\* The contributing deals whose symbol is the one asked for.
MatchingSymbol == {i \in Contributing : deals[i].symbol = Val(call.symbol)}

\* C24: with a symbol filter only the deals of that symbol contribute; a
\* deal of another symbol is in no (key, symbol) bucket, in no per-key
\* total and not in the grand total.
C24_SymbolFilterExcludes ==
    (Aggregated /\ ~IsNone(call.symbol)) =>
        /\ DOMAIN result.keyed = MatchingSymbol
        /\ result.Summ = AmountsOf(MatchingSymbol)
        /\ \A b \in DOMAIN result.buckets :
              result.buckets[b] =
                  AmountsOf({i \in MatchingSymbol :
                      <<result.keyed[i].display_key, Val(call.symbol)>> = b})
        /\ \A k \in DOMAIN result.TotalByMagic :
              result.TotalByMagic[k] =
                  AmountsOf({i \in MatchingSymbol : result.keyed[i].display_key = k})

-----------------------------------------------------------------------------
(* The running balance against calculate_balance_at_date                   *)

\* The instant up to which the starting balance of the call counts deals.
StartingBalanceTarget == TargetTimestamp(call.from_date, FALSE, TRUE)

\* C25: a deal counted in the starting balance (its time is at most the
\* target timestamp of the balance evaluated at from_date with the exact
\* time) is not added to the running balance by the replay of the window.
C25_NoDoubleCount ==
    [][ReplayStepTaken =>
        (all_relevant_deals[idx].time <= StartingBalanceTarget
            => current_balance' = current_balance)]_vars

\* The history is made of round trips: every trading deal belongs to a
\* position with a position_id, made of one opening deal (profit 0) followed
\* by one close of the same volume (> 0) and the same commission, both with
\* a magic of the filter, the close not after the end of the window; no
\* BalanceChange deal lies at or after the start of the window.
RoundTripsOnly ==
    /\ \A i \in DOMAIN deals :
          deals[i].type = BALANCE => deals[i].time < WindowStart
    /\ \A i \in DOMAIN deals :
          deals[i].type # BALANCE =>
              /\ deals[i].position_id # 0
              /\ deals[i].magic \in call.magics
              /\ \E o, c \in DOMAIN deals :
                    /\ o < c
                    /\ i \in {o, c}
                    /\ {j \in DOMAIN deals : /\ deals[j].type # BALANCE
                                             /\ deals[j].position_id = deals[i].position_id}
                          = {o, c}
                    /\ deals[o].entry = ENTRY_IN /\ deals[o].profit = 0
                    /\ deals[c].entry = ENTRY_OUT /\ deals[c].volume > 0
                    /\ deals[c].volume = deals[o].volume
                    /\ deals[c].commission = deals[o].commission
                    /\ deals[o].time <= deals[c].time
                    /\ deals[c].time <= WindowTimestamp(call.to_date)

\* C26: for a history of round trips, all closed by the end of the window,
\* the balance of the last Period is the balance at to_date evaluated with
\* the exact time, also when a position opens before the window and closes
\* inside it.
C26_FinalBalanceAgrees ==
    (Returned /\ call.from_date <= call.to_date /\ RoundTripsOnly) =>
        result.timeline[Len(result.timeline)].balance
            = calculate_balance_at_date(call.to_date, deals, None, FALSE, TRUE)

-----------------------------------------------------------------------------
(* The order of the Period boundaries                                      *)

\* C27: for from_date <= to_date every returned Period has
\* time_in <= time_out, the first time_in is from_date and time_in does not
\* decrease along the timeline, so every boundary stamped by a deal of the
\* window lies between from_date and to_date.
C27_PeriodsOrdered ==
    (Returned /\ call.from_date <= call.to_date) =>
        LET tl == result.timeline
        IN  /\ tl # <<>> => tl[1].time_in = call.from_date
            /\ \A k \in DOMAIN tl :
                  /\ tl[k].time_in <= Val(tl[k].time_out)
                  /\ call.from_date <= tl[k].time_in
                  /\ Val(tl[k].time_out) <= call.to_date
            /\ \A k \in 1..(Len(tl) - 1) : tl[k].time_in <= tl[k + 1].time_in

-----------------------------------------------------------------------------
(* calculate_by_magics without the BalanceChange deals                     *)

\* The result of the same call on the history without its BalanceChange deals.
WithoutBalanceChanges ==
    calculate_by_magics(SelectSeq(deals, LAMBDA d : d.type # BALANCE), call.symbol,
                        call.from_date, call.to_date, call.magic_groups)

\* C28: the buckets, the per-key totals and the grand totals of the result
\* are those of the same call on the history with every BalanceChange deal
\* removed, also when a BalanceChange deal carries a position_id and a
\* magic.
C28_BalanceChangesIgnored ==
    Aggregated =>
        /\ result.buckets = WithoutBalanceChanges.buckets
        /\ result.TotalByMagic = WithoutBalanceChanges.TotalByMagic
        /\ result.Summ = WithoutBalanceChanges.Summ
        /\ result.SummOnlyMagics = WithoutBalanceChanges.SummOnlyMagics

-----------------------------------------------------------------------------
(* calculate_by_magics: group ids and magics as keys                       *)

\* C29: with a grouping, a deal whose resolved magic is in no group shares
\* no per-key total and no (key, symbol) bucket with a deal mapped to a
\* group, also when a group id equals an ungrouped magic.
C29_GroupKeysApart ==
    (Aggregated /\ ~IsNone(call.magic_groups)) =>
        \A i, j \in Contributing :
            (/\ GroupsHolding(result.keyed[i].magic_key) = {}
             /\ GroupsHolding(result.keyed[j].magic_key) # {})
            => result.keyed[i].display_key # result.keyed[j].display_key

-----------------------------------------------------------------------------
(* A close of a position that is not open                                  *)

\* What a step of the replay does with a close of a position that is not
\* in current_positions: nothing but the swap on the balance.
OrphanCloseEffect ==
    /\ current_positions' = current_positions
    /\ Len(timeline') = Len(timeline)
    /\ \A k \in DOMAIN timeline :
          /\ timeline'[k].positions = timeline[k].positions
          /\ timeline'[k].time_in = timeline[k].time_in
    /\ current_balance' - current_balance = all_relevant_deals[idx].swap
    /\ C6_NoNegativeVolume'

\* C30 as stated: every close of the window whose position is not open
\* creates no position, appends no Period and changes the running balance
\* by its swap.
C30_EveryOrphanCloseAddsSwap ==
    [][ReplayStepTaken =>
        LET deal == all_relevant_deals[idx]
        IN  (/\ deal.time >= WindowStart
             /\ deal.entry = ENTRY_OUT
             /\ ~HasPosition(current_positions, deal.position_id))
            => OrphanCloseEffect]_vars

\* In the window, for a position_id other than 0.
C30_OrphanCloseStep ==
    ReplayStepTaken =>
        LET deal == all_relevant_deals[idx]
        IN  /\ (/\ deal.time >= WindowStart
                /\ deal.position_id # 0
                /\ deal.entry = ENTRY_OUT
                /\ ~HasPosition(current_positions, deal.position_id))
               => OrphanCloseEffect
            /\ (deal.time >= WindowStart /\ deal.position_id = 0)
               => UNCHANGED <<current_positions, timeline, current_balance>>

\* Before the window: after any number of the deals before the window, a
\* close of a position that is not open leaves the open positions as they
\* are.
C30_OrphanCloseBeforeWindow ==
    (TimelineCalled /\ timeline # <<>>) =>
        LET position_id_to_magic == PositionIdToMagic(TradingDeals(deals))
            before(n) == PositionsAtStart(SubSeq(all_relevant_deals, 1, n), 1, <<>>,
                                          WindowTimestamp(call.from_date),
                                          position_id_to_magic)
        IN  \A n \in DOMAIN all_relevant_deals :
                (/\ all_relevant_deals[n].time < WindowStart
                 /\ all_relevant_deals[n].entry = ENTRY_OUT
                 /\ ~before(n - 1).raised
                 /\ ~HasPosition(before(n - 1).positions,
                                 all_relevant_deals[n].position_id))
                => before(n) = before(n - 1)

\* C30: a close whose position_id is not 0 and whose position is not open
\* creates no position, lists no negative volume, appends no Period and
\* changes the running balance by its swap only; a deal with position_id 0
\* is skipped and changes nothing; before the window such a close leaves
\* the open positions unchanged.
C30_OrphanClose ==
    []C30_OrphanCloseBeforeWindow /\ [][C30_OrphanCloseStep]_vars

\* A close (profit 10, commission -2, swap -1) of a position never opened
\* has just been replayed: one Period, its balance lower by 1.
C30_Witness ==
    /\ pc = "replay"
    /\ idx > 1
    /\ LET deal == all_relevant_deals[idx - 1]
       IN  /\ deal.time >= WindowStart
           /\ deal.position_id # 0
           /\ deal.entry = ENTRY_OUT
           /\ deal.volume > 0
           /\ deal.swap = -1
           /\ \A k \in 1..(idx - 2) :
                 all_relevant_deals[k].position_id # deal.position_id
    /\ current_positions = <<>>
    /\ last_change = -1
    /\ Len(timeline) = 1
    /\ timeline[1].balance = current_balance

\* A close of a position never opened lies before the window and the first
\* Period lists nothing.
C30_WitnessBeforeWindow ==
    /\ Returned
    /\ all_relevant_deals # <<>>
    /\ all_relevant_deals[1].time < WindowStart
    /\ all_relevant_deals[1].entry = ENTRY_OUT
    /\ all_relevant_deals[1].position_id # 0
    /\ result.timeline[1].positions = <<>>

=============================================================================
